---- MODULE Spec2Model ----
(***************************************************************************)
(* CineScope: the MovieAPI response cache (time-based expiry, lazy purge   *)
(* on read) and the UIManager browse controller (category / search / page  *)
(* state, debounced search, guarded loading of movie pages).               *)
(*                                                                         *)
(* Two specifications share the variables:                                 *)
(*   SpecCache  the MovieAPI cache driven by setCache / getCache and the   *)
(*              passing of wall-clock time (Date.now());                   *)
(*   Spec       the UIManager driven by user events, the debounce timer    *)
(*              and the resolution of the outstanding loadMovies call.     *)
(***************************************************************************)
EXTENDS Integers, Sequences, FiniteSets, TLC

(***************************************************************************)
(* Bounds of the model                                                     *)
(***************************************************************************)
\* number of TTL windows the wall clock runs through
MaxWindows == 2
\* longest text typed into the search box
MaxTextLen == 1
\* highest page number a load-more may move to, and highest total_pages
MaxPage == 2
\* number of setTimeout handles handed out in one run
MaxTimers == 2
\* number of upstream fetches one URL may have outstanding at a time
MaxPending == 2
\* number of logins completed in one run (each takes a new user id)
MaxLogins == 2

(***************************************************************************)
(* Program constants                                                       *)
(***************************************************************************)
\* this.cacheExpiry = 5 * 60 * 1000
cacheExpiry == 5 * 60 * 1000
\* setTimeout(..., 300) in handleSearch
DebounceMs == 300
\* granularity at which the model lets the debounce clock advance
TickMs == 150

\* null, as getCache returns it
Null == "null"
\* no getCache call observed yet
NoGet == [key |-> "", result |-> Null, at |-> 0, hadEntry |-> FALSE]
\* no performSearch being followed
NoTrack == [phase |-> "none", q |-> <<>>, fetches |-> <<>>, prev |-> <<>>]
\* currentUser = null
NoUser == [id |-> 0, email |-> ""]
\* localStorage holds no 'cinescope_user' item
NoItem == [kind |-> "absent", user |-> NoUser]
\* no FavoritesManager / AuthManager call observed yet
NoCall == [op |-> "", movie |-> 0, ret |-> "undefined", user |-> 0]
\* no run of toggleFavorite calls being followed
NoToggles == [movie |-> 0, n |-> 0, base |-> {}]
\* no failed fetch whose error panel is up
NoFetch == [endpoint |-> "", query |-> <<>>, page |-> 0]

(***************************************************************************)
(* Input sets                                                              *)
(***************************************************************************)
Keys == {"k1", "k2"}
Payloads == {"v1", "v2"}

\* instants of Date.now() at which the model lets something happen: the
\* ends of each TTL window and the milliseconds next to them
Instants ==
    { t \in UNION { {w * cacheExpiry - 1, w * cacheExpiry, w * cacheExpiry + 1}
                    : w \in 0..MaxWindows } : t >= 0 }

Categories == {"trending", "popular", "favorites"}

MovieIds == {1, 2}
Emails == {"a@b.c"}
Passwords == {"pw"}

Chars == {" ", "d"}
Texts == UNION { [1..n -> Chars] : n \in 0..MaxTextLen }

VARIABLES
    \* ---- MovieAPI ----
    cache,              \* this.cache : Map of key -> [data, timestamp]
    now,                \* Date.now()
    pending,            \* per URL, the fetch(url) calls fetchData awaits
    \* ---- UIManager ----
    currentPage,
    currentCategory,
    currentSearchQuery,
    isLoading,
    hasMorePages,
    searchTimeout,      \* handle of the last timer set by handleSearch
    timers,             \* pending setTimeout callbacks of handleSearch
    nextTimerId,        \* next handle setTimeout returns
    inflight,           \* loadMovies invocations suspended at their await
    grid,               \* batches of cards in #moviesGrid, by request
    errorShown,         \* #errorContainer is visible
    \* ---- AuthManager, FavoritesManager, localStorage ----
    currentUser,        \* this.currentUser of the AuthManager
    logins,             \* handleLogin calls suspended at their await
    nextUserId,         \* the value Date.now() gives the next login as id
    savedUser,          \* localStorage item 'cinescope_user'
    savedFavorites,     \* localStorage items 'favorites_<id>', by user id
    favorites,          \* this.favorites, in insertion order
    \* ---- observation (history) ----
    lastCall,           \* the FavoritesManager / AuthManager call just made
    toggles,            \* the current run of toggleFavorite calls on one
                        \* movie by a signed-in user: the movie, the number
                        \* of calls (odd / even beyond two), the set before
    lastGet,            \* the getCache call just made and what it returned
    stored,             \* per key, the last setCache call and the entry
                        \* it found in the cache, if any
    thrown,             \* the key of the fetchData call that has just
                        \* thrown, "" when the last step was not that
    lastOp,             \* the last UIManager step taken
    failed,             \* the request whose failure put up the error panel
    burst,              \* the current run of handleSearch calls: how many,
                        \* the last text, the performSearch calls it led
                        \* to and whether the last of them had that text
    tracked,            \* fetches issued since the last performSearch
    switched            \* the category of the last switchCategory that took
                        \* effect, "" once a handleSearch has come after it

cacheVars == <<cache, now, pending, lastGet, stored, thrown>>
uiVars == <<currentPage, currentCategory, currentSearchQuery, isLoading,
            hasMorePages, searchTimeout, timers, nextTimerId, inflight,
            grid, errorShown, lastOp, failed, burst, tracked, switched>>
favVars == <<currentUser, logins, nextUserId, savedUser, savedFavorites,
             favorites, lastCall, toggles>>
vars == <<cache, now, pending, lastGet, stored, thrown,
          currentUser, logins, nextUserId, savedUser, savedFavorites,
          favorites, lastCall, toggles,
          currentPage, currentCategory, currentSearchQuery, isLoading,
          hasMorePages, searchTimeout, timers, nextTimerId, inflight,
          grid, errorShown, lastOp, failed, burst, tracked, switched>>

(***************************************************************************)
(* MovieAPI cache                                                          *)
(***************************************************************************)
\* Date.now() - cached.timestamp > this.cacheExpiry
isExpired_inclusive(entry) == now - entry.timestamp >= cacheExpiry

isExpired(entry) == now - entry.timestamp > cacheExpiry

\* value returned by getCache(key)
getCacheResult(key) ==
    IF key \notin DOMAIN cache THEN Null
    ELSE IF isExpired(cache[key]) THEN Null
    ELSE cache[key].data

\* this.cache after getCache(key)
getCacheMap_keep(key) == cache

getCacheMap(key) ==
    IF key \in DOMAIN cache /\ isExpired(cache[key])
    THEN [k \in DOMAIN cache \ {key} |-> cache[k]]
    ELSE cache

\* this.cache after setCache(key, data)
setCacheMap_keepFirst(key, data) ==
    IF key \in DOMAIN cache THEN cache
    ELSE [k \in DOMAIN cache \cup {key} |->
            IF k = key THEN [data |-> data, timestamp |-> now] ELSE cache[k]]

setCacheMap(key, data) ==
    [k \in DOMAIN cache \cup {key} |->
        IF k = key THEN [data |-> data, timestamp |-> now] ELSE cache[k]]

\* the record of a setCache(key, data) call: what was stored and when,
\* whether the call found an entry under the key, live or older than TTL,
\* and whether that entry held another payload
storedAfter(key, data) ==
    [k \in DOMAIN stored \cup {key} |->
        IF k = key
        THEN [data |-> data, at |-> now,
              found |-> IF key \notin DOMAIN cache THEN "nothing"
                        ELSE IF isExpired(cache[key]) THEN "expired"
                        ELSE "live",
              changed |-> key \in DOMAIN cache /\ cache[key].data # data]
        ELSE stored[k]]

SetCache(key, data) ==
    /\ cache' = setCacheMap(key, data)
    /\ stored' = storedAfter(key, data)
    /\ lastGet' = NoGet
    /\ UNCHANGED <<now, pending>>
    /\ thrown' = ""
    /\ UNCHANGED uiVars
    /\ UNCHANGED favVars

GetCache(key) ==
    /\ cache' = getCacheMap(key)
    /\ lastGet' = [key |-> key, result |-> getCacheResult(key), at |-> now,
                   hadEntry |-> key \in DOMAIN cache]
    /\ UNCHANGED <<now, pending, stored>>
    /\ thrown' = ""
    /\ UNCHANGED uiVars
    /\ UNCHANGED favVars

\* wall-clock time passes
TimePasses ==
    /\ \E t \in Instants : t > now /\ now' = t
    /\ lastGet' = NoGet
    /\ UNCHANGED <<cache, pending, stored>>
    /\ thrown' = ""
    /\ UNCHANGED uiVars
    /\ UNCHANGED favVars

\* if (cached) return cached;   -- TRUE when fetchData goes on to fetch(url)
fetchDataGoesUpstream(key) == getCacheResult(key) = Null

\* fetchData up to its await, for the URL that is its cache key: the cache
\* lookup and, on a miss, the call of fetch(url)
FetchData(key) ==
    /\ fetchDataGoesUpstream(key) => pending[key] < MaxPending
    /\ cache' = getCacheMap(key)
    /\ lastGet' = [key |-> key, result |-> getCacheResult(key), at |-> now,
                   hadEntry |-> key \in DOMAIN cache]
    /\ pending' = IF fetchDataGoesUpstream(key)
                  THEN [pending EXCEPT ![key] = @ + 1]
                  ELSE pending
    /\ UNCHANGED <<now, stored>>
    /\ thrown' = ""
    /\ UNCHANGED uiVars
    /\ UNCHANGED favVars

\* fetchData after its await, the response being ok with body data:
\* this.setCache(cacheKey, data)
FetchDataResolves(key, data) ==
    /\ pending[key] > 0
    /\ pending' = [pending EXCEPT ![key] = @ - 1]
    /\ cache' = setCacheMap(key, data)
    /\ stored' = storedAfter(key, data)
    /\ lastGet' = NoGet
    /\ UNCHANGED now
    /\ thrown' = ""
    /\ UNCHANGED uiVars
    /\ UNCHANGED favVars

\* fetchData after its await, fetch having rejected or the response not
\* being ok: the error is rethrown and nothing is cached
FetchDataRejects_dropsEntry(key) ==
    /\ pending[key] > 0
    /\ pending' = [pending EXCEPT ![key] = @ - 1]
    /\ lastGet' = NoGet
    /\ cache' = [k \in DOMAIN cache \ {key} |-> cache[k]]
    /\ UNCHANGED <<now, stored>>
    /\ thrown' = key
    /\ UNCHANGED uiVars
    /\ UNCHANGED favVars

FetchDataRejects(key) ==
    /\ pending[key] > 0
    /\ pending' = [pending EXCEPT ![key] = @ - 1]
    /\ lastGet' = NoGet
    /\ UNCHANGED <<cache, now, stored>>
    /\ thrown' = key
    /\ UNCHANGED uiVars
    /\ UNCHANGED favVars

(***************************************************************************)
(* UIManager: helpers                                                      *)
(***************************************************************************)
RECURSIVE trimStart(_)
trimStart(s) ==
    IF s = <<>> THEN s
    ELSE IF Head(s) = " " THEN trimStart(Tail(s)) ELSE s

RECURSIVE trimEnd(_)
trimEnd(s) ==
    IF s = <<>> THEN s
    ELSE IF s[Len(s)] = " " THEN trimEnd(SubSeq(s, 1, Len(s) - 1)) ELSE s

\* String.prototype.trim
trim(s) == trimEnd(trimStart(s))

\* endpoint of each category in apiMethods / MovieAPI.get...Movies
endpointOf(category) ==
    CASE category = "trending"  -> "/trending/movie/week"
      [] category = "popular"   -> "/movie/popular"
      [] category = "top_rated" -> "/movie/top_rated"
      [] category = "upcoming"  -> "/movie/upcoming"

\* what loadMovies asks for, given the state it reads before its await
Descriptor_categoryFirst(category, query, page) ==
    IF category = "favorites"
    THEN [endpoint |-> "favorites", query |-> <<>>, page |-> 0]
    ELSE IF query # <<>>
    THEN [endpoint |-> "/search/movie", query |-> query, page |-> page]
    ELSE [endpoint |-> endpointOf(category), query |-> <<>>, page |-> page]

Descriptor(category, query, page) ==
    IF query # <<>>
    THEN [endpoint |-> "/search/movie", query |-> query, page |-> page]
    ELSE IF category = "favorites"
    THEN [endpoint |-> "favorites", query |-> <<>>, page |-> 0]
    ELSE [endpoint |-> endpointOf(category), query |-> <<>>, page |-> page]

\* the same request, whatever its page
SameQuery(d, e) == d.endpoint = e.endpoint /\ d.query = e.query

CurrentDescriptor == Descriptor(currentCategory, currentSearchQuery, currentPage)

\* a step of the UIManager: the handler that ran, its category argument,
\* whether it got past its early return, whether it issued a fetch; for a
\* response taken in, the request it answers and its total_pages
Op(name, category, acted, issued) ==
    [op |-> name, category |-> category, acted |-> acted, issued |-> issued,
     request |-> NoFetch, total |-> 0]

\* if (this.isLoading) return;   -- TRUE when loadMovies goes on
loadMoviesProceeds_unguarded == TRUE

loadMoviesProceeds == ~isLoading

\* loadMovies up to its await, called with the state its caller has just
\* written (category, query, page) and the grid as the caller left it:
\* setLoadingState(true) (with the skeleton cards on page 1), hideError(),
\* and the request to movieAPI / favoritesManager
loadMovies(category, query, page, g) ==
    IF loadMoviesProceeds
    THEN /\ isLoading' = TRUE
         /\ errorShown' = FALSE
         /\ grid' = IF page = 1 THEN <<>> ELSE g
         /\ inflight' = inflight \cup {Descriptor(category, query, page)}
    ELSE /\ isLoading' = isLoading
         /\ errorShown' = errorShown
         /\ grid' = g
         /\ inflight' = inflight

\* the failed request stays on record while its error panel is up
failedAfter == IF errorShown' THEN failed ELSE NoFetch

(***************************************************************************)
(* UIManager: operations                                                   *)
(***************************************************************************)
\* if (category === this.currentCategory && !this.currentSearchQuery) return;
switchCategoryReturnsEarly_always(category) ==
    category = currentCategory

switchCategoryReturnsEarly(category) ==
    category = currentCategory /\ currentSearchQuery = <<>>

\* the page switchCategory / performSearch reset to
resetPage_keep == currentPage

resetPage == 1

SwitchCategory(category) ==
    /\ IF switchCategoryReturnsEarly(category)
       THEN /\ UNCHANGED <<currentPage, currentCategory, currentSearchQuery,
                           hasMorePages, isLoading, inflight, grid, errorShown>>
            /\ lastOp' = Op("switchCategory", category, FALSE, FALSE)
       ELSE /\ currentCategory' = category
            /\ currentPage' = resetPage
            /\ currentSearchQuery' = <<>>
            /\ hasMorePages' = TRUE
            /\ loadMovies(category, <<>>, resetPage, <<>>)
            /\ lastOp' = Op("switchCategory", category, TRUE, loadMoviesProceeds)
    /\ tracked' = IF switchCategoryReturnsEarly(category) THEN tracked ELSE NoTrack
    /\ switched' = IF switchCategoryReturnsEarly(category) THEN switched ELSE category
    /\ UNCHANGED <<searchTimeout, timers, nextTimerId, burst>>
    /\ UNCHANGED cacheVars
    /\ UNCHANGED favVars
    /\ failed' = failedAfter

\* the body of performSearch(query)
performSearch(query) ==
    /\ currentSearchQuery' = trim(query)
    /\ currentPage' = resetPage
    /\ hasMorePages' = TRUE
    /\ loadMovies(currentCategory, trim(query), resetPage, <<>>)
    /\ UNCHANGED currentCategory

\* timers left after clearTimeout(this.searchTimeout)
clearTimeout_skipped(handle) == timers

clearTimeout(handle) == { t \in timers : t.id # handle }

\* the search input's 'input' event
HandleSearch(text) ==
    /\ nextTimerId <= MaxTimers
    /\ timers' = clearTimeout(searchTimeout)
                    \cup {[id |-> nextTimerId, text |-> text, elapsed |-> 0]}
    /\ searchTimeout' = nextTimerId
    /\ nextTimerId' = nextTimerId + 1
    /\ burst' = IF \E t \in timers : t.id = searchTimeout /\ t.elapsed < DebounceMs
                THEN [calls |-> IF burst.calls < MaxTimers THEN burst.calls + 1
                                ELSE burst.calls,
                      commits |-> burst.commits, last |-> text,
                      carriedLast |-> burst.carriedLast]
                ELSE [calls |-> 1, commits |-> 0, last |-> text, carriedLast |-> FALSE]
    /\ lastOp' = Op("handleSearch", "", TRUE, FALSE)
    /\ switched' = ""
    /\ UNCHANGED <<currentPage, currentCategory, currentSearchQuery, isLoading,
                   hasMorePages, inflight, grid, errorShown, tracked>>
    /\ UNCHANGED cacheVars
    /\ UNCHANGED favVars
    /\ failed' = failedAfter

\* time passes for the pending debounce timers; a timer that is due runs
\* before more time passes
TimerTick ==
    /\ timers # {}
    /\ \A t \in timers : t.elapsed < DebounceMs
    /\ timers' = { [t EXCEPT !.elapsed = t.elapsed + TickMs] : t \in timers }
    /\ lastOp' = Op("tick", "", TRUE, FALSE)
    /\ UNCHANGED <<currentPage, currentCategory, currentSearchQuery, isLoading,
                   hasMorePages, searchTimeout, nextTimerId, inflight, grid,
                   errorShown, burst, tracked>>
    /\ UNCHANGED switched
    /\ UNCHANGED cacheVars
    /\ UNCHANGED favVars
    /\ failed' = failedAfter

\* the setTimeout callback of handleSearch: () => this.performSearch(query)
TimerFires ==
    \E t \in timers :
        /\ t.elapsed >= DebounceMs
        /\ timers' = timers \ {t}
        /\ performSearch(t.text)
        /\ burst' = [burst EXCEPT !.commits = IF @ < 2 THEN @ + 1 ELSE @,
                                  !.carriedLast = (t.text = burst.last),
                                  !.last = <<>>]
        /\ tracked' = [phase |-> "searched", q |-> trim(t.text),
                       fetches |-> IF loadMoviesProceeds
                                   THEN <<Descriptor(currentCategory, trim(t.text), resetPage)>>
                                   ELSE <<>>,
                       prev |-> IF tracked.phase = "searched" THEN tracked.q
                                ELSE <<>>]
        /\ lastOp' = Op("performSearch", "", TRUE, loadMoviesProceeds)
        /\ UNCHANGED <<searchTimeout, nextTimerId>>
        /\ UNCHANGED switched
        /\ UNCHANGED cacheVars
        /\ UNCHANGED favVars
        /\ failed' = failedAfter

\* if (this.isLoading || !this.hasMorePages) return;
loadMoreReturnsEarly_loadingOnly == isLoading

loadMoreReturnsEarly == isLoading \/ ~hasMorePages

\* this.currentPage++
nextPage == currentPage + 1

\* the body of loadMoreMovies()
loadMoreMovies(name) ==
    /\ loadMoreReturnsEarly \/ currentPage < MaxPage
    /\ IF loadMoreReturnsEarly
       THEN /\ UNCHANGED <<currentPage, isLoading, inflight, grid, errorShown,
                           tracked>>
            /\ lastOp' = Op(name, "", FALSE, FALSE)
       ELSE /\ currentPage' = nextPage
            /\ loadMovies(currentCategory, currentSearchQuery, nextPage, grid)
            /\ tracked' =
                 IF tracked.phase = "searched" /\ loadMoviesProceeds
                 THEN [tracked EXCEPT
                         !.phase = "more",
                         !.fetches = Append(@, Descriptor(currentCategory,
                                                 currentSearchQuery, nextPage))]
                 ELSE NoTrack
            /\ lastOp' = Op(name, "", TRUE, loadMoviesProceeds)
    /\ UNCHANGED <<currentCategory, currentSearchQuery, hasMorePages,
                   searchTimeout, timers, nextTimerId, burst>>
    /\ UNCHANGED switched
    /\ UNCHANGED cacheVars
    /\ UNCHANGED favVars
    /\ failed' = failedAfter

\* click on #loadMoreBtn
LoadMoreMovies == loadMoreMovies("loadMoreMovies")

\* the IntersectionObserver callback of setupInfiniteScroll
ScrollSentinel ==
    IF ~isLoading /\ hasMorePages
    THEN loadMoreMovies("scrollSentinel")
    ELSE /\ lastOp' = Op("scrollSentinel", "", FALSE, FALSE)
         /\ UNCHANGED <<currentPage, currentCategory, currentSearchQuery,
                        isLoading, hasMorePages, searchTimeout, timers,
                        nextTimerId, inflight, grid, errorShown, burst, tracked>>
         /\ UNCHANGED switched
         /\ UNCHANGED cacheVars
         /\ UNCHANGED favVars
         /\ failed' = failedAfter

\* click on #retryBtn, which showError makes visible
Retry ==
    /\ errorShown
    /\ loadMovies(currentCategory, currentSearchQuery, currentPage, grid)
    /\ lastOp' = Op("retry", "", TRUE, loadMoviesProceeds)
    /\ tracked' = NoTrack
    /\ UNCHANGED <<currentPage, currentCategory, currentSearchQuery,
                   hasMorePages, searchTimeout, timers, nextTimerId, burst,
                   failed>>
    /\ UNCHANGED switched
    /\ UNCHANGED cacheVars
    /\ UNCHANGED favVars

\* renderMovies(response.results, this.currentPage === 1)
renderMovies(d) == IF currentPage = 1 THEN <<d>> ELSE Append(grid, d)

\* loadMovies after its await, the request d having produced a response
\* with response.total_pages = totalPages
FetchSucceeds(d, totalPages) ==
    /\ d \in inflight
    /\ d.endpoint = "favorites" => totalPages = 1
    /\ grid' = renderMovies(d)
    /\ hasMorePages' = (currentPage < totalPages)
    /\ isLoading' = FALSE
    /\ inflight' = inflight \ {d}
    /\ lastOp' = [Op("fetchSucceeds", "", TRUE, FALSE)
                    EXCEPT !.request = d, !.total = totalPages]
    /\ UNCHANGED <<currentPage, currentCategory, currentSearchQuery,
                   searchTimeout, timers, nextTimerId, errorShown, burst, tracked>>
    /\ UNCHANGED switched
    /\ UNCHANGED cacheVars
    /\ UNCHANGED favVars
    /\ failed' = failedAfter

\* loadMovies after its await, the request d having been rejected
FetchFails_noFinally(d) ==
    /\ d \in inflight
    /\ d.endpoint # "favorites"
    /\ errorShown' = TRUE
    /\ inflight' = inflight \ {d}
    /\ lastOp' = Op("fetchFails", "", TRUE, FALSE)
    /\ failed' = d
    /\ UNCHANGED <<currentPage, currentCategory, currentSearchQuery, isLoading,
                   hasMorePages, searchTimeout, timers, nextTimerId, grid,
                   burst, tracked>>
    /\ UNCHANGED switched
    /\ UNCHANGED cacheVars
    /\ UNCHANGED favVars

FetchFails(d) ==
    /\ d \in inflight
    /\ d.endpoint # "favorites"
    /\ errorShown' = TRUE
    /\ isLoading' = FALSE
    /\ inflight' = inflight \ {d}
    /\ lastOp' = Op("fetchFails", "", TRUE, FALSE)
    /\ failed' = d
    /\ UNCHANGED <<currentPage, currentCategory, currentSearchQuery,
                   hasMorePages, searchTimeout, timers, nextTimerId, grid,
                   burst, tracked>>
    /\ UNCHANGED switched
    /\ UNCHANGED cacheVars
    /\ UNCHANGED favVars

(***************************************************************************)
(* AuthManager and FavoritesManager                                        *)
(***************************************************************************)
\* the elements of a Set kept as the sequence of its insertions
Range(seq) == { seq[i] : i \in 1..Len(seq) }

\* Set.prototype.add
setAdd(seq, x) == IF x \in Range(seq) THEN seq ELSE Append(seq, x)

\* Set.prototype.delete
setDelete(seq, x) == SelectSeq(seq, LAMBDA y : y # x)

\* JSON.stringify(user)
stringifyUser(user) == [kind |-> "json", user |-> user]

\* JSON.parse(savedUser), for a text that parses
parseUser_noId(item) == [item.user EXCEPT !.id = 0]

parseUser(item) == item.user

\* a localStorage item whose text does not parse
Malformed == [kind |-> "malformed", user |-> NoUser]
MalformedFavorites == [kind |-> "malformed", ids |-> <<>>]

\* JSON.stringify(Array.from(this.favorites))
stringifyFavorites(seq) == [kind |-> "json", ids |-> seq]

\* new Set(JSON.parse(savedFavorites)); a text that does not parse throws
\* and leaves new Set()
parseFavorites(item) == IF item.kind = "json" THEN item.ids ELSE <<>>

\* isAuthenticated(): this.currentUser !== null
isAuthenticated == currentUser # NoUser

\* isFavorite(movieId): this.favorites.has(movieId)
isFavorite_never(movieId) == FALSE

isFavorite(movieId) == movieId \in Range(favorites)

\* localStorage after saveFavorites(), the favorites being seq
saveFavorites(seq) ==
    IF ~isAuthenticated THEN savedFavorites
    ELSE [u \in DOMAIN savedFavorites \cup {currentUser.id} |->
            IF u = currentUser.id THEN stringifyFavorites(seq)
            ELSE savedFavorites[u]]

\* if (!window.authManager?.isAuthenticated()) { ...; return false; }
addFavoriteRefuses_never == FALSE

addFavoriteRefuses == ~isAuthenticated

\* the body of addFavorite(movieId), reported as the call name
addFavorite(name, movieId) ==
    IF addFavoriteRefuses
    THEN /\ lastCall' = [op |-> name, movie |-> movieId, ret |-> "false",
                         user |-> currentUser.id]
         /\ UNCHANGED <<favorites, savedFavorites>>
    ELSE /\ favorites' = setAdd(favorites, movieId)
         /\ savedFavorites' = saveFavorites(setAdd(favorites, movieId))
         /\ lastCall' = [op |-> name, movie |-> movieId, ret |-> "true",
                         user |-> currentUser.id]

\* the body of removeFavorite(movieId), reported as the call name
removeFavorite_noSave(name, movieId) ==
    /\ favorites' = setDelete(favorites, movieId)
    /\ savedFavorites' = savedFavorites
    /\ lastCall' = [op |-> name, movie |-> movieId, ret |-> "undefined",
                    user |-> currentUser.id]

removeFavorite(name, movieId) ==
    /\ favorites' = setDelete(favorites, movieId)
    /\ savedFavorites' = saveFavorites(setDelete(favorites, movieId))
    /\ lastCall' = [op |-> name, movie |-> movieId, ret |-> "undefined",
                    user |-> currentUser.id]

AddFavorite(movieId) ==
    /\ addFavorite("addFavorite", movieId)
    /\ toggles' = NoToggles
    /\ UNCHANGED <<currentUser, logins, nextUserId, savedUser>>
    /\ UNCHANGED cacheVars
    /\ UNCHANGED uiVars

RemoveFavorite(movieId) ==
    /\ removeFavorite("removeFavorite", movieId)
    /\ toggles' = NoToggles
    /\ UNCHANGED <<currentUser, logins, nextUserId, savedUser>>
    /\ UNCHANGED cacheVars
    /\ UNCHANGED uiVars

\* toggleFavorite(movieId), also the click on a card's favorite button
ToggleFavorite(movieId) ==
    /\ IF isFavorite(movieId)
       THEN removeFavorite("toggleFavorite", movieId)
       ELSE addFavorite("toggleFavorite", movieId)
    /\ toggles' =
         IF ~isAuthenticated THEN NoToggles
         ELSE IF toggles.n > 0 /\ toggles.movie = movieId
         THEN [toggles EXCEPT !.n = IF @ = 3 THEN 2 ELSE @ + 1]
         ELSE [movie |-> movieId, n |-> 1, base |-> Range(favorites)]
    /\ UNCHANGED <<currentUser, logins, nextUserId, savedUser>>
    /\ UNCHANGED cacheVars
    /\ UNCHANGED uiVars

\* loadFavorites(), reported with what it found under the user's key
LoadFavorites ==
    /\ favorites' =
         IF ~isAuthenticated THEN <<>>
         ELSE IF currentUser.id \in DOMAIN savedFavorites
         THEN parseFavorites(savedFavorites[currentUser.id])
         ELSE favorites
    /\ lastCall' = [op |-> "loadFavorites", movie |-> 0,
                    ret |-> IF ~isAuthenticated THEN "unauthenticated"
                            ELSE IF currentUser.id \notin DOMAIN savedFavorites
                            THEN "absent"
                            ELSE savedFavorites[currentUser.id].kind,
                    user |-> currentUser.id]
    /\ toggles' = NoToggles
    /\ UNCHANGED <<currentUser, logins, nextUserId, savedUser, savedFavorites>>
    /\ UNCHANGED cacheVars
    /\ UNCHANGED uiVars

\* localStorage after clearFavorites(), called when userId is the id of
\* getCurrentUser(), 0 standing for no user
clearFavoritesStorage(userId) ==
    IF userId # 0
    THEN [u \in DOMAIN savedFavorites \ {userId} |-> savedFavorites[u]]
    ELSE savedFavorites

\* handleLogin up to its await: the form's email and password are read and
\* the call returns at once when either is empty
HandleLoginSubmit(email, password) ==
    /\ nextUserId + Cardinality(logins) <= MaxLogins
    /\ logins' = IF email = "" \/ password = "" THEN logins
                 ELSE logins \cup {email}
    /\ lastCall' = [op |-> "handleLogin", movie |-> 0, ret |-> "undefined",
                    user |-> currentUser.id]
    /\ toggles' = NoToggles
    /\ UNCHANGED <<currentUser, nextUserId, savedUser, savedFavorites,
                   favorites>>
    /\ UNCHANGED cacheVars
    /\ UNCHANGED uiVars

\* handleLogin after its await: the user object, with id Date.now(), becomes
\* the current user and is persisted
HandleLoginCompletes(email) ==
    /\ email \in logins
    /\ logins' = logins \ {email}
    /\ currentUser' = [id |-> nextUserId, email |-> email]
    /\ savedUser' = stringifyUser([id |-> nextUserId, email |-> email])
    /\ nextUserId' = nextUserId + 1
    /\ lastCall' = [op |-> "login", movie |-> 0, ret |-> "undefined",
                    user |-> currentUser.id]
    /\ toggles' = NoToggles
    /\ UNCHANGED <<savedFavorites, favorites>>
    /\ UNCHANGED cacheVars
    /\ UNCHANGED uiVars

\* logout(): this.currentUser = null comes first, so the clearFavorites()
\* it ends with reads getCurrentUser() as null
Logout_keepSession ==
    /\ currentUser' = NoUser
    /\ savedUser' = savedUser
    /\ favorites' = <<>>
    /\ savedFavorites' = clearFavoritesStorage(NoUser.id)
    /\ lastCall' = [op |-> "logout", movie |-> 0, ret |-> "undefined",
                    user |-> currentUser.id]
    /\ toggles' = NoToggles
    /\ UNCHANGED <<logins, nextUserId>>
    /\ UNCHANGED cacheVars
    /\ UNCHANGED uiVars

Logout ==
    /\ currentUser' = NoUser
    /\ savedUser' = NoItem
    /\ favorites' = <<>>
    /\ savedFavorites' = clearFavoritesStorage(NoUser.id)
    /\ lastCall' = [op |-> "logout", movie |-> 0, ret |-> "undefined",
                    user |-> currentUser.id]
    /\ toggles' = NoToggles
    /\ UNCHANGED <<logins, nextUserId>>
    /\ UNCHANGED cacheVars
    /\ UNCHANGED uiVars

\* the cache key of getMovieDetails(movieId): the URL fetchData builds
\* from `/movie/${movieId}` and the fixed append_to_response parameter
detailUrl(movieId) == IF movieId = 1 THEN "k1" ELSE "k2"

\* const favoriteIds = this.getFavorites()
favoriteIds_all == <<1, 2>>

favoriteIds == favorites

\* the ids getFavoriteMovies maps getMovieDetails over
idsToFetch == IF ~isAuthenticated THEN <<>> ELSE favoriteIds

\* getFavoriteMovies() up to its await: for each bookmarked id, in the
\* order of the Set, getMovieDetails(id) runs fetchData up to its own
\* await, which is the cache lookup and on a miss the call of fetch(url).
\* The ids are distinct, so are their keys, and no lookup sees the effect
\* of another. Reported with what the call had in hand when it suspended
GetFavoriteMovies ==
    /\ \A m \in Range(idsToFetch) :
          fetchDataGoesUpstream(detailUrl(m)) => pending[detailUrl(m)] < MaxPending
    /\ cache' = [k \in { kk \in DOMAIN cache :
                            \A m \in Range(idsToFetch) :
                               detailUrl(m) = kk => kk \in DOMAIN getCacheMap(kk) }
                  |-> cache[k]]
    /\ pending' = [k \in Keys |->
                     IF \E m \in Range(idsToFetch) :
                           detailUrl(m) = k /\ fetchDataGoesUpstream(k)
                     THEN pending[k] + 1 ELSE pending[k]]
    /\ lastGet' = IF idsToFetch = <<>> THEN NoGet
                  ELSE [key |-> detailUrl(idsToFetch[Len(idsToFetch)]),
                        result |-> getCacheResult(detailUrl(idsToFetch[Len(idsToFetch)])),
                        at |-> now,
                        hadEntry |-> detailUrl(idsToFetch[Len(idsToFetch)])
                                        \in DOMAIN cache]
    /\ thrown' = ""
    /\ lastCall' = [op |-> "getFavoriteMovies", movie |-> 0,
                    ret |-> IF idsToFetch = <<>> THEN "[]" ELSE "promise",
                    user |-> currentUser.id]
    /\ toggles' = NoToggles
    /\ UNCHANGED <<now, stored>>
    /\ UNCHANGED <<currentUser, logins, nextUserId, savedUser, savedFavorites,
                   favorites>>
    /\ UNCHANGED uiVars

\* this.currentUser after initializeAuth()
currentUserAfterInit ==
    IF savedUser.kind = "json" THEN parseUser(savedUser) ELSE NoUser

\* the 'cinescope_user' item after initializeAuth()
savedUserAfterInit_keep == savedUser

savedUserAfterInit ==
    IF savedUser.kind = "malformed" THEN NoItem ELSE savedUser

\* the page is loaded anew: new FavoritesManager(), whose loadFavorites()
\* finds no window.authManager yet, then new AuthManager() with its
\* initializeAuth(); handlers suspended in the old page are gone. Reported
\* with what initializeAuth found in localStorage
PageLoad ==
    /\ favorites' = <<>>
    /\ currentUser' = currentUserAfterInit
    /\ savedUser' = savedUserAfterInit
    /\ logins' = {}
    /\ lastCall' = [op |-> "pageLoad", movie |-> 0, ret |-> savedUser.kind,
                    user |-> currentUser.id]
    /\ toggles' = NoToggles
    /\ UNCHANGED <<nextUserId, savedFavorites>>
    /\ UNCHANGED cacheVars
    /\ UNCHANGED uiVars

\* something outside the application leaves a text that does not parse
\* under 'cinescope_user'
CorruptSavedUser ==
    /\ savedUser # Malformed
    /\ savedUser' = Malformed
    /\ lastCall' = [op |-> "storage", movie |-> 0, ret |-> "undefined",
                    user |-> currentUser.id]
    /\ toggles' = NoToggles
    /\ UNCHANGED <<currentUser, logins, nextUserId, savedFavorites, favorites>>
    /\ UNCHANGED cacheVars
    /\ UNCHANGED uiVars

\* the same under 'favorites_<userId>'
CorruptSavedFavorites(userId) ==
    /\ userId \in DOMAIN savedFavorites
    /\ savedFavorites[userId] # MalformedFavorites
    /\ savedFavorites' = [savedFavorites EXCEPT ![userId] = MalformedFavorites]
    /\ lastCall' = [op |-> "storage", movie |-> 0, ret |-> "undefined",
                    user |-> currentUser.id]
    /\ toggles' = NoToggles
    /\ UNCHANGED <<currentUser, logins, nextUserId, savedUser, favorites>>
    /\ UNCHANGED cacheVars
    /\ UNCHANGED uiVars

(***************************************************************************)
(* Specifications                                                          *)
(***************************************************************************)
\* new MovieAPI() and new UIManager(): the constructor's initializeUI()
\* has already run loadMovies() up to its await
Init ==
    /\ cache = <<>>
    /\ now = 0
    /\ pending = [k \in Keys |-> 0]
    /\ lastGet = NoGet
    /\ stored = <<>>
    /\ currentPage = 1
    /\ currentCategory = "trending"
    /\ currentSearchQuery = <<>>
    /\ isLoading = TRUE
    /\ hasMorePages = TRUE
    /\ searchTimeout = 0
    /\ timers = {}
    /\ nextTimerId = 1
    /\ inflight = {Descriptor("trending", <<>>, 1)}
    /\ grid = <<>>
    /\ errorShown = FALSE
    /\ failed = NoFetch
    /\ currentUser = NoUser
    /\ logins = {}
    /\ nextUserId = 1
    /\ savedUser = NoItem
    /\ savedFavorites = <<>>
    /\ favorites = <<>>
    /\ lastCall = NoCall
    /\ toggles = NoToggles
    /\ lastOp = Op("new", "", TRUE, TRUE)
    /\ burst = [calls |-> 0, commits |-> 0, last |-> <<>>, carriedLast |-> FALSE]
    /\ tracked = NoTrack
    /\ switched = ""
    /\ thrown = ""

Next ==
    \/ \E c \in Categories : SwitchCategory(c)
    \/ \E text \in Texts : HandleSearch(text)
    \/ TimerTick
    \/ TimerFires
    \/ LoadMoreMovies
    \/ ScrollSentinel
    \/ Retry
    \/ \E d \in inflight : \E tp \in 0..MaxPage : FetchSucceeds(d, tp)
    \/ \E d \in inflight : FetchFails(d)

Spec == Init /\ [][Next]_vars

NextCache ==
    \/ \E k \in Keys : \E v \in Payloads : SetCache(k, v)
    \/ \E k \in Keys : GetCache(k)
    \/ TimePasses

SpecCache == Init /\ [][NextCache]_vars

NextFetch ==
    \/ \E k \in Keys : FetchData(k)
    \/ \E k \in Keys : \E v \in Payloads : FetchDataResolves(k, v)
    \/ \E k \in Keys : FetchDataRejects(k)
    \/ TimePasses

SpecFetch == Init /\ [][NextFetch]_vars

NextFav ==
    \/ \E m \in MovieIds : AddFavorite(m)
    \/ \E m \in MovieIds : RemoveFavorite(m)
    \/ \E m \in MovieIds : ToggleFavorite(m)
    \/ LoadFavorites
    \/ \E e \in Emails \cup {""} : \E pw \in Passwords \cup {""} :
          HandleLoginSubmit(e, pw)
    \/ \E e \in logins : HandleLoginCompletes(e)
    \/ Logout
    \/ PageLoad
    \/ CorruptSavedUser
    \/ \E u \in DOMAIN savedFavorites : CorruptSavedFavorites(u)

SpecFav == Init /\ [][NextFav]_vars

\* the favorites category: a user signs in, bookmarks movies and has the
\* bookmarked movies loaded, the detail requests coming back in any order
NextFavLoad ==
    \/ \E e \in Emails : \E pw \in Passwords : HandleLoginSubmit(e, pw)
    \/ \E e \in logins : HandleLoginCompletes(e)
    \/ \E m \in MovieIds : AddFavorite(m)
    \/ GetFavoriteMovies
    \/ \E k \in Keys : \E v \in Payloads : FetchDataResolves(k, v)
    \/ \E k \in Keys : FetchDataRejects(k)

SpecFavLoad == Init /\ [][NextFavLoad]_vars

(***************************************************************************)
(* Properties of the cache (checked under SpecCache)                       *)
(***************************************************************************)
\* age of the looked-up key's last store at the time of the last getCache
LastGetAge == lastGet.at - stored[lastGet.key].at

LastGetOfStoredKey == lastGet.key # "" /\ lastGet.key \in DOMAIN stored

\* C3: after setCache(k, v) and no later setCache on k, a getCache(k) made
\* while now - storedAt <= TTL returns v, also at once after the store and
\* at an age of exactly TTL.
C3_NoFalseMissWithinTTL ==
    (LastGetOfStoredKey /\ LastGetAge <= cacheExpiry)
        => lastGet.result = stored[lastGet.key].data

\* a lookup made at an age of exactly TTL that returned the payload
C3_Witness ==
    /\ LastGetOfStoredKey
    /\ LastGetAge = cacheExpiry
    /\ lastGet.result = stored[lastGet.key].data

\* C4: a getCache(k) made when now - storedAt(k) > TTL returns null and
\* leaves no entry for k in the cache, on the lookup that discovers the
\* expiry and on every later lookup before a new setCache(k, .).
C4_ExpiredNeverReturned ==
    (LastGetOfStoredKey /\ LastGetAge > cacheExpiry)
        => (lastGet.result = Null /\ lastGet.key \notin DOMAIN cache)

\* a lookup past the TTL that found the entry already purged by an earlier one
C4_Witness ==
    /\ LastGetOfStoredKey
    /\ LastGetAge > cacheExpiry
    /\ ~lastGet.hadEntry
    /\ lastGet.result = Null
    /\ lastGet.key \notin DOMAIN cache

\* C16: a cache entry is always the payload and the time of the last
\* setCache on its key, whatever entry that call found; a getCache after a
\* setCache that overwrote an entry returns the new payload up to an age of
\* TTL counted from the overwriting store and null after it, so never the
\* payload that was overwritten.
C16_OverwriteIsUnconditional ==
    /\ \A k \in DOMAIN cache :
          /\ k \in DOMAIN stored
          /\ cache[k] = [data |-> stored[k].data, timestamp |-> stored[k].at]
    /\ (LastGetOfStoredKey /\ stored[lastGet.key].found # "nothing")
          => /\ LastGetAge <= cacheExpiry
                  => lastGet.result = stored[lastGet.key].data
             /\ LastGetAge > cacheExpiry => lastGet.result = Null

\* a lookup that returned the second payload, stored over an entry with
\* another payload that was then already older than TTL, at an age of
\* exactly TTL of the second store
C16_Witness ==
    /\ LastGetOfStoredKey
    /\ stored[lastGet.key].found = "expired"
    /\ stored[lastGet.key].changed
    /\ LastGetAge = cacheExpiry
    /\ lastGet.result = stored[lastGet.key].data

(***************************************************************************)
(* Properties of fetchData (checked under SpecFetch)                       *)
(***************************************************************************)
\* C15: no URL ever has two upstream fetches outstanding: a fetchData call
\* for a URL whose earlier fetch has not resolved yet issues none.
C15_OneUpstreamFetchPerUrl ==
    \A k \in Keys : pending[k] <= 1

(***************************************************************************)
(* Properties of favorites and sign-in (checked under SpecFav)             *)
(***************************************************************************)
\* C18: an addFavorite made while no user is signed in returns false and
\* leaves the favorites set and every persisted favorites record as they
\* were.
C18_AddFavoriteNeedsSignIn ==
    [][(lastCall'.op = "addFavorite" /\ currentUser = NoUser)
        => /\ lastCall'.ret = "false"
           /\ UNCHANGED <<favorites, savedFavorites, savedUser, currentUser>>
      ]_vars

\* an addFavorite refused after a sign-out that left a persisted record
C18_Witness ==
    /\ lastCall.op = "addFavorite"
    /\ lastCall.ret = "false"
    /\ currentUser = NoUser
    /\ favorites = <<>>
    /\ savedFavorites # <<>>

\* C19: a toggleFavorite(m) by a signed-in user makes m a favorite when it
\* was none and none when it was one, and changes the membership of no
\* other id; after a run of n such calls on m the set is the one before
\* the run when n is even, and that set with the membership of m flipped
\* when n is odd.
C19_ToggleFlips ==
    [][ /\ (lastCall'.op = "toggleFavorite" /\ currentUser # NoUser)
             => Range(favorites') =
                  IF lastCall'.movie \in Range(favorites)
                  THEN Range(favorites) \ {lastCall'.movie}
                  ELSE Range(favorites) \cup {lastCall'.movie}
        /\ (toggles'.n > 0 /\ toggles'.n % 2 = 0)
             => Range(favorites') = toggles'.base
        /\ toggles'.n % 2 = 1
             => /\ Range(favorites') \ {toggles'.movie}
                     = toggles'.base \ {toggles'.movie}
                /\ toggles'.movie \in Range(favorites')
                     <=> toggles'.movie \notin toggles'.base
      ]_vars

\* three toggles in a row of a movie that was no favorite: it is one now
C19_Witness ==
    /\ lastCall.op = "toggleFavorite"
    /\ currentUser # NoUser
    /\ toggles.n = 3
    /\ toggles.movie \notin toggles.base
    /\ toggles.movie \in Range(favorites)
    /\ toggles.base # {}

\* C20: after logout the favorites set is empty and no persisted favorites
\* record is left under the id of the user who was signed in.
C20_LogoutClearsFavorites ==
    lastCall.op = "logout"
        => /\ favorites = <<>>
           /\ lastCall.user \notin DOMAIN savedFavorites

\* C21: a page load that finds a 'cinescope_user' item that does not parse
\* removes the item and leaves no user signed in.
C21_CorruptSessionDiscarded ==
    [][(lastCall'.op = "pageLoad" /\ savedUser.kind = "malformed")
        => (savedUser' = NoItem /\ currentUser' = NoUser)]_vars

\* a page load that found the item corrupt while a user was signed in
C21_Witness ==
    /\ lastCall.op = "pageLoad"
    /\ lastCall.ret = "malformed"
    /\ lastCall.user # 0
    /\ savedUser = NoItem
    /\ currentUser = NoUser

\* C22: after logout, whatever the state before, no user is signed in,
\* there is no 'cinescope_user' item and isAuthenticated() is false.
C22_LogoutSignsOut ==
    lastCall.op = "logout"
        => (currentUser = NoUser /\ savedUser = NoItem /\ ~isAuthenticated)

\* the logout of a signed-in user, made while another login was suspended
C22_Witness ==
    /\ lastCall.op = "logout"
    /\ lastCall.user # 0
    /\ logins # {}
    /\ currentUser = NoUser
    /\ savedUser = NoItem

C27_PersistedMatchesMemory ==
    [][(lastCall'.op \in {"addFavorite", "removeFavorite", "toggleFavorite"}
          /\ currentUser # NoUser)
        => /\ currentUser.id \in DOMAIN savedFavorites'
           /\ savedFavorites'[currentUser.id].kind = "json"
           /\ Range(savedFavorites'[currentUser.id].ids) = Range(favorites')
           /\ \A u \in DOMAIN savedFavorites \ {currentUser.id} :
                 /\ u \in DOMAIN savedFavorites'
                 /\ savedFavorites'[u] = savedFavorites[u]
      ]_vars

\* a removeFavorite that left the user's item with the one id still kept,
\* the item of an earlier user being there too
C27_Witness ==
    /\ lastCall.op = "removeFavorite"
    /\ currentUser # NoUser
    /\ Len(favorites) = 1
    /\ savedFavorites[currentUser.id] = [kind |-> "json", ids |-> favorites]
    /\ Cardinality(DOMAIN savedFavorites) = 2

\* C28: a loadFavorites that finds the signed-in user's item not to parse
\* leaves the favorites empty and no item under that user's key.
C28_CorruptFavoritesDiscarded ==
    (lastCall.op = "loadFavorites" /\ lastCall.ret = "malformed")
        => (favorites = <<>> /\ lastCall.user \notin DOMAIN savedFavorites)

FavoriteKeys == { detailUrl(m) : m \in Range(favorites) }

ResetOps == {"switchCategory", "performSearch"}
LoadMoreOps == {"loadMoreMovies", "scrollSentinel"}
LoadRequestOps == ResetOps \cup LoadMoreOps \cup {"retry"}
ResolveOps == {"fetchSucceeds", "fetchFails"}

\* C1: the batches shown in the grid are always results of the query the
\* state now describes; a response to a superseded request is not shown.
C1_GridMatchesNewestQuery ==
    \A i \in 1..Len(grid) : SameQuery(grid[i], CurrentDescriptor)

\* C2: a switchCategory past its precondition or a performSearch always has
\* the fetch for the new query descriptor outstanding when it returns, also
\* when it arrived while isLoading was true.
C2_ResetIssuesFetch ==
    (lastOp.op \in ResetOps /\ lastOp.acted) => CurrentDescriptor \in inflight

\* C5 as stated: switchCategory and performSearch always return with
\* currentPage = 1 and hasMorePages = true.
C5_AlwaysReset ==
    lastOp.op \in ResetOps => (currentPage = 1 /\ hasMorePages)

\* C5 amended: performSearch, and switchCategory when it gets past its
\* early return, return with currentPage = 1 and hasMorePages = true.
C5_ResetWhenActed ==
    (lastOp.op \in ResetOps /\ lastOp.acted) => (currentPage = 1 /\ hasMorePages)

\* a switchCategory that acted while a fetch was outstanding
C5_Witness ==
    /\ lastOp.op = "switchCategory"
    /\ lastOp.acted
    /\ ~lastOp.issued
    /\ currentPage = 1
    /\ hasMorePages

\* C6: a loadMoreMovies (button or scroll sentinel) made while isLoading is
\* true or hasMorePages is false changes none of currentPage, category,
\* searchQuery, hasMorePages, isLoading and issues no fetch.
C6_LoadMoreNoOp ==
    [][(lastOp'.op \in LoadMoreOps /\ (isLoading \/ ~hasMorePages))
        => UNCHANGED <<currentPage, currentCategory, currentSearchQuery,
                       hasMorePages, isLoading, inflight, grid>>]_vars

\* a click on the button that did nothing because the pages are exhausted
C6_Witness ==
    /\ lastOp.op = "loadMoreMovies"
    /\ ~lastOp.acted
    /\ ~isLoading
    /\ ~hasMorePages

\* C7: at most one debounce timer is pending; a run of handleSearch calls,
\* each less than the quiet period after the one before, has committed
\* nothing while its timer is pending and exactly one performSearch, with
\* the text of the last call, once the timer is gone.
C7_DebounceCommitsOnce ==
    /\ Cardinality(timers) <= 1
    /\ burst.commits <= 1
    /\ timers # {} => burst.commits = 0
    /\ (burst.calls > 0 /\ timers = {})
          => (burst.commits = 1 /\ burst.carriedLast)

\* a run of two calls whose single commit carried the second text
C7_Witness ==
    /\ burst.calls >= 2
    /\ timers = {}
    /\ burst.commits = 1
    /\ burst.carriedLast
    /\ lastOp.op = "performSearch"

\* C8: isLoading is true exactly when one loadMovies call is outstanding,
\* never two; a load request made while isLoading is true starts nothing,
\* and the resolution of the outstanding call starts nothing either.
C8_SingleFlight ==
    [][ /\ (isLoading <=> inflight # {}) /\ (isLoading' <=> inflight' # {})
        /\ Cardinality(inflight) <= 1 /\ Cardinality(inflight') <= 1
        /\ (isLoading /\ lastOp'.op \in LoadRequestOps) => inflight' = inflight
        /\ lastOp'.op \in ResolveOps => (inflight' = {} /\ ~isLoading')
      ]_vars

\* a reset that arrived while a fetch was outstanding and was dropped
C8_Witness ==
    /\ lastOp.op \in ResetOps
    /\ lastOp.acted
    /\ ~lastOp.issued
    /\ isLoading
    /\ Cardinality(inflight) = 1
    /\ CurrentDescriptor \notin inflight

\* C9: switchCategory(c) with c # currentCategory or a non-empty search
\* query leaves category = c, searchQuery = "", page = 1, hasMorePages =
\* true; otherwise it changes no state variable and issues no fetch.
C9_SwitchCategoryEffect ==
    [][lastOp'.op = "switchCategory" =>
        IF lastOp'.category # currentCategory \/ currentSearchQuery # <<>>
        THEN /\ currentCategory' = lastOp'.category
             /\ currentSearchQuery' = <<>>
             /\ currentPage' = 1
             /\ hasMorePages'
             /\ <<currentCategory, currentSearchQuery>>'
                    # <<currentCategory, currentSearchQuery>>
        ELSE UNCHANGED <<currentPage, currentCategory, currentSearchQuery,
                         hasMorePages, isLoading, inflight, grid, errorShown>>
      ]_vars

\* a switch to the category already current, made to leave a search
C9_Witness ==
    /\ lastOp.op = "switchCategory"
    /\ lastOp.acted
    /\ currentCategory = lastOp.category
    /\ currentSearchQuery = <<>>
    /\ currentPage = 1
    /\ hasMorePages
    /\ tracked = NoTrack
    /\ burst.commits = 1

\* C10: performSearch(q), q not blank, followed by a loadMoreMovies that is
\* not a no-op has issued exactly the fetches {search q, page 1} and then
\* {search q, page 2}.
C10_SearchThenLoadMore ==
    (tracked.phase = "more" /\ tracked.q # <<>>)
        => tracked.fetches =
             << [endpoint |-> "/search/movie", query |-> tracked.q, page |-> 1],
                [endpoint |-> "/search/movie", query |-> tracked.q, page |-> 2] >>

\* C11: a failed fetch leaves the error panel up and isLoading false, and
\* the fetch a retry issues is the very request that failed (same category
\* or search text, same page).
C11_RetryRepeatsFailedFetch ==
    /\ lastOp.op = "fetchFails" => (errorShown /\ ~isLoading /\ failed # NoFetch)
    /\ (lastOp.op = "retry" /\ lastOp.issued) => inflight = {failed}

\* C12: every fetch issued is a search for (searchQuery, page) when the
\* search query is not empty, else the bookmarked list when the category is
\* favorites, else the endpoint of the category with the current page; and
\* once the bookmarked list has arrived hasMorePages is false.
C12_DescriptorRule ==
    [][ /\ (lastOp'.op \in LoadRequestOps /\ lastOp'.issued) =>
             inflight' =
               { IF currentSearchQuery' # <<>>
                 THEN [endpoint |-> "/search/movie",
                       query |-> currentSearchQuery', page |-> currentPage']
                 ELSE IF currentCategory' = "favorites"
                 THEN [endpoint |-> "favorites", query |-> <<>>, page |-> 0]
                 ELSE [endpoint |-> endpointOf(currentCategory'),
                       query |-> <<>>, page |-> currentPage'] }
        /\ (lastOp'.op = "fetchSucceeds"
               /\ \E d \in inflight : d.endpoint = "favorites") => ~hasMorePages'
      ]_vars

\* the bookmarked list, asked for in the favorites category, has arrived
C12_Witness ==
    /\ lastOp.op = "fetchSucceeds"
    /\ currentCategory = "favorites"
    /\ currentSearchQuery = <<>>
    /\ grid = << [endpoint |-> "favorites", query |-> <<>>, page |-> 0] >>
    /\ ~hasMorePages

\* C13: a performSearch of blank text that follows a performSearch of a
\* non-blank text leaves searchQuery empty and has page 1 of the category,
\* which the searches did not change, as the fetch outstanding.
C13_ClearedSearchFetchesCategory ==
    (lastOp.op = "performSearch" /\ tracked.prev # <<>> /\ tracked.q = <<>>)
        => /\ currentSearchQuery = <<>>
           /\ inflight = { [endpoint |-> IF currentCategory = "favorites"
                                         THEN "favorites"
                                         ELSE endpointOf(currentCategory),
                            query |-> <<>>,
                            page |-> IF currentCategory = "favorites"
                                     THEN 0 ELSE 1] }

\* C14: right after construction the UIManager is in category trending,
\* page 1, with an empty search query, not loading, and with more pages.
C14_StateAfterConstruction ==
    lastOp.op = "new"
        => /\ currentCategory = "trending"
           /\ currentPage = 1
           /\ currentSearchQuery = <<>>
           /\ ~isLoading
           /\ hasMorePages

\* C17: the settlement of the outstanding request, either way, leaves
\* isLoading false; isLoading is never true without a request outstanding
\* whose settlement will clear it, so no state keeps it true for good; and
\* a switchCategory past its early return, a performSearch, a retry, or a
\* load-more with pages left, made while nothing is loading (so also after
\* a failure), issues its fetch.
C17_NoErrorIsFatal ==
    [][ /\ lastOp'.op \in ResolveOps => ~isLoading'
        /\ isLoading' => inflight' # {}
        /\ (~isLoading /\ lastOp'.op \in ResetOps \cup {"retry"}
              /\ lastOp'.acted)
              => (lastOp'.issued /\ isLoading'
                    /\ CurrentDescriptor' \in inflight')
        /\ (~isLoading /\ hasMorePages /\ lastOp'.op \in LoadMoreOps)
              => (lastOp'.issued /\ isLoading'
                    /\ CurrentDescriptor' \in inflight')
      ]_vars

\* a retry made after a failure has the failed request outstanding again
C17_Witness ==
    /\ lastOp.op = "retry"
    /\ lastOp.issued
    /\ isLoading
    /\ failed # NoFetch
    /\ inflight = {failed}

\* C29: a loadMoreMovies (button or scroll sentinel) fetches page p > 1 only
\* when the newest batch in the grid is page p - 1 of the same query, so
\* the pages shown run 1, 2, ... with none skipped.
C29_PagesConsecutive ==
    (lastOp.op \in LoadMoreOps /\ lastOp.issued)
        => /\ Len(grid) > 0
           /\ grid[Len(grid)] =
                 Descriptor(currentCategory, currentSearchQuery, currentPage - 1)

\* C24: when a response to a request of the paginated upstream has been
\* taken in, hasMorePages tells whether the page that request asked for is
\* below the total_pages of the response.
C24_HasMoreFromRequestedPage ==
    (lastOp.op = "fetchSucceeds" /\ lastOp.request.endpoint # "favorites")
        => (hasMorePages <=> lastOp.request.page < lastOp.total)

\* C30: from a switchCategory(c) that took effect until the next
\* handleSearch or switchCategory, currentSearchQuery is empty and
\* currentCategory is c.
C30_SwitchOutlivesPendingSearch ==
    switched # "" => (currentSearchQuery = <<>> /\ currentCategory = switched)

====
